---- MODULE Spec2Model ----
\* tailscale_notifier (src/src/main.rs): one run of main.
\* load config -> fetch the device list -> classify every device against the
\* current time -> select one message -> send it through Pushover.
\*
\* Time is counted in ticks; TicksPerDay ticks make one day, so that a
\* duration can be a fraction of a day and chrono's num_days() (whole days,
\* truncated toward zero) is a real computation.
EXTENDS Integers, Sequences, FiniteSets, TLC

\* ---------------------------------------------------------------- bounds
TicksPerDay == 2
MaxDevices == 3
MaxNow == 1

\* ------------------------------------------------------------- constants
\* main.rs:97  `if days_until_expiration < 15`
WindowDays == 15
\* main.rs:58  main returns Err(anyhow::Error): the process exits with 1
ErrExit == 1
\* main.rs:54 / main.rs:124  a panic (expect, index out of bounds) exits with 101
PanicExit == 101

\* ---------------------------------------------------------------- inputs
Hostnames == {"alpha", "beta"}

\* The instants a device's `expires` string may denote: more than a day ago,
\* a fraction of a day ago, now, a little more than a day ahead, and the edge
\* of the 15 day window.
ExpiresValues ==
    {-(TicksPerDay + 1), -1, 0, TicksPerDay + 1, WindowDays * TicksPerDay}

\* chrono::Utc::now() (main.rs:88)
NowValues == 0..MaxNow

\* The `expires` JSON string: an RFC 3339 text denoting instant t, or a text
\* that is no RFC 3339 timestamp.
ExpiresStrings ==
    [valid : {TRUE}, t : ExpiresValues] \cup {[valid |-> FALSE, t |-> 0]}

RawDevices(hosts) == [hostname : hosts, expires : ExpiresStrings]

RECURSIVE SeqsUpTo(_, _)
SeqsUpTo(S, n) ==
    IF n = 0 THEN {<<>>}
    ELSE LET shorter == SeqsUpTo(S, n - 1)
         IN  shorter \cup {Append(s, x) : s \in {q \in shorter : Len(q) = n - 1}, x \in S}

\* Response bodies: text that is not JSON, JSON without a `devices` array
\* (for instance an API error object), JSON of the expected shape.
BodiesOver(hosts) ==
    {[kind |-> "not_json", devices |-> <<>>],
     [kind |-> "other_json", devices |-> <<>>]}
    \cup {[kind |-> "devices", devices |-> ds] :
            ds \in SeqsUpTo(RawDevices(hosts), MaxDevices)}

Bodies == BodiesOver(Hostnames)

\* The bodies of a fleet whose devices all share one hostname.
OneHostBodies == BodiesOver({"alpha"})

NoBody == [kind |-> "none", devices |-> <<>>]

Statuses == {200, 401}

\* ----------------------------------------------------------------- state
VARIABLES
    pc,                \* where main is
    res,               \* the reqwest Response (main.rs:81)
    req_body,          \* main.rs:83
    devices,           \* main.rs:84
    utc,               \* main.rs:88
    devices_expiring,  \* main.rs:89, references into devices (indices)
    devices_expired,   \* main.rs:90, references into devices (indices)
    idx,               \* position of `for device in devices.iter()`
    sent,              \* messages handed to api.send, in order
    exit_code,         \* process exit status, -1 while running
    err,               \* the error that ended the run, "" if none
    http_status,       \* status of the inventory response, 0 before it
    net_calls          \* HTTP requests issued so far

vars == <<pc, res, req_body, devices, utc, devices_expiring, devices_expired,
          idx, sent, exit_code, err, http_status, net_calls>>

\* ------------------------------------------------------- pure operators

\* chrono::Duration::num_days (main.rs:95, 126): whole days, truncated toward
\* zero
NumDays(d) ==
    IF d >= 0 THEN d \div TicksPerDay ELSE -((-d) \div TicksPerDay)

\* date_format::deserialize
DateOk(s) == s.valid

\* Variant of ParseDevices that skips the records whose date does not parse.
ParseDevicesLenient(body) ==
    IF body.kind # "devices" THEN [ok |-> FALSE, devices |-> <<>>]
    ELSE LET good == SelectSeq(body.devices, LAMBDA r : DateOk(r.expires))
         IN  [ok |-> TRUE,
              devices |-> [k \in 1..Len(good) |->
                  [hostname |-> good[k].hostname, expires |-> good[k].expires.t]]]

\* serde_json::from_str::<Devices>: the first failing field fails the whole
\* parse; otherwise every record becomes a Device, in order.
ParseDevices(body) ==
    IF body.kind # "devices" THEN [ok |-> FALSE, devices |-> <<>>]
    ELSE IF \E k \in 1..Len(body.devices) : ~DateOk(body.devices[k].expires)
         THEN [ok |-> FALSE, devices |-> <<>>]
         ELSE [ok |-> TRUE,
               devices |-> [k \in 1..Len(body.devices) |->
                   [hostname |-> body.devices[k].hostname,
                    expires |-> body.devices[k].expires.t]]]

\* Variant of Bucket with the window test written `<=`.
BucketInclusive(days) ==
    IF days <= WindowDays
    THEN IF days > 0 THEN "expiring"
         ELSE IF days < 0 THEN "expired"
         ELSE "expiring"
    ELSE "none"

\* main.rs:97-111: the bucket a device with this many days left goes to
Bucket(days) ==
    IF days < WindowDays
    THEN IF days > 0 THEN "expiring"
         ELSE IF days < 0 THEN "expired"
         ELSE "expiring"
    ELSE "none"

\* Variant of Push that inserts at the front.
PushFront(v, x) == <<x>> \o v

\* Vec::push

Push(v, x) == Append(v, x)

\* format!: a message is the sequence of its pieces, numbers in decimal
Fmt1(a, text) == <<a, text>>
Fmt2(a, text1, n, text2) == <<a, text1, ToString(n), text2>>

Panicked == [panic |-> TRUE, msg |-> <<>>]
Message(m) == [panic |-> FALSE, msg |-> m]

\* main.rs:117-118
ExpiredOneMsg(devs, expired) ==
    Message(Fmt1(devs[expired[1]].hostname, " has expired!"))

\* main.rs:121
ExpiredManyMsg(expired) ==
    Message(Fmt1(ToString(Len(expired)), " devices are expired!"))

\* main.rs:124-132: `devices_expired[0]` panics when devices_expired is empty
ExpiringOneMsg(devs, expired, now) ==
    IF Len(expired) < 1 THEN Panicked
    ELSE LET device == devs[expired[1]]
             days_until_expiration == NumDays(device.expires - now)
         IN  Message(IF days_until_expiration = 0
                     THEN Fmt1(device.hostname, " is expiring today!")
                     ELSE Fmt2(device.hostname, " is expiring in ",
                               days_until_expiration, " days!"))

\* Variant of FallbackMsg that reports the size of the other bucket.
FallbackMsgExpiredCount(expiring, expired) ==
    Message(Fmt1(ToString(Len(expired)), " devices are expiring soon!"))

\* main.rs:136
FallbackMsg(expiring, expired) ==
    Message(Fmt1(ToString(Len(expiring)), " devices are expiring soon!"))

\* Variant of Selection that tests the expiring bucket first.
SelectionExpiringFirst(devs, expiring, expired, now) ==
    IF Len(expiring) = 1 THEN ExpiringOneMsg(devs, expired, now)
    ELSE IF Len(expired) = 1 THEN ExpiredOneMsg(devs, expired)
    ELSE IF Len(expired) > 1 THEN ExpiredManyMsg(expired)
    ELSE FallbackMsg(expiring, expired)

\* main.rs:116-138: the if / else if chain that picks the message
Selection(devs, expiring, expired, now) ==
    IF Len(expired) = 1 THEN ExpiredOneMsg(devs, expired)
    ELSE IF Len(expired) > 1 THEN ExpiredManyMsg(expired)
    ELSE IF Len(expiring) = 1 THEN ExpiringOneMsg(devs, expired, now)
    ELSE FallbackMsg(expiring, expired)

\* Variant of ExitAfterSend that only logs a failed send.
ExitAfterSendLogged(ok) == IF ok THEN 0 ELSE 0

\* main.rs:54 and 140: `response.expect(..)` panics on Err, else main returns Ok(())

ExitAfterSend(ok) == IF ok THEN 0 ELSE PanicExit

\* ----------------------------------------------------------------- Init
Init ==
    /\ pc = "load_config"
    /\ res = [status |-> 0, body |-> NoBody]
    /\ req_body = NoBody
    /\ devices = <<>>
    /\ utc = 0
    /\ devices_expiring = <<>>
    /\ devices_expired = <<>>
    /\ idx = 0
    /\ sent = <<>>
    /\ exit_code = -1
    /\ err = ""
    /\ http_status = 0
    /\ net_calls = 0

\* `?` on an Err: main returns the error, the process exits with ErrExit
Abort(what) ==
    /\ pc' = "exit"
    /\ exit_code' = ErrExit
    /\ err' = what

\* -------------------------------------------------------------- actions

\* main.rs:61  confy::load(..)?
LoadConfig ==
    /\ pc = "load_config"
    /\ \E ok \in BOOLEAN :
        IF ok THEN pc' = "config_path" /\ UNCHANGED <<exit_code, err>>
        ELSE Abort("config")
    /\ UNCHANGED <<res, req_body, devices, utc, devices_expiring,
                   devices_expired, idx, sent, http_status, net_calls>>

\* main.rs:63-64  confy::get_configuration_file_path(..)?
ConfigPath ==
    /\ pc = "config_path"
    /\ \E ok \in BOOLEAN :
        IF ok THEN pc' = "fetch" /\ UNCHANGED <<exit_code, err>>
        ELSE Abort("config_path")
    /\ UNCHANGED <<res, req_body, devices, utc, devices_expiring,
                   devices_expired, idx, sent, http_status, net_calls>>

\* main.rs:66-81  get(url, token).await?  The request fails in transport, or a
\* response arrives; its status is not looked at.
FetchFrom(bodies) ==
    /\ pc = "fetch"
    /\ net_calls' = net_calls + 1
    /\ \E transport_ok \in BOOLEAN :
        IF transport_ok
        THEN \E st \in Statuses, b \in bodies :
                /\ res' = [status |-> st, body |-> b]
                /\ http_status' = st
                /\ pc' = "read_body"
                /\ UNCHANGED <<exit_code, err>>
        ELSE /\ Abort("transport")
             /\ UNCHANGED <<res, http_status>>
    /\ UNCHANGED <<req_body, devices, utc, devices_expiring, devices_expired,
                   idx, sent>>

Fetch == FetchFrom(Bodies)

FetchOneHost == FetchFrom(OneHostBodies)

\* main.rs:83  res.text().await?  (res is consumed)
ReadBody ==
    /\ pc = "read_body"
    /\ res' = [status |-> 0, body |-> NoBody]
    /\ \E ok \in BOOLEAN :
        IF ok THEN /\ req_body' = res.body
                   /\ pc' = "parse"
                   /\ UNCHANGED <<exit_code, err>>
        ELSE /\ Abort("body")
             /\ UNCHANGED req_body
    /\ UNCHANGED <<devices, utc, devices_expiring, devices_expired, idx, sent,
                   http_status, net_calls>>

\* main.rs:84  serde_json::from_str::<Devices>(&req_body)?.devices
Parse ==
    /\ pc = "parse"
    /\ LET p == ParseDevices(req_body)
       IN  IF p.ok THEN /\ devices' = p.devices
                        /\ pc' = "clock"
                        /\ UNCHANGED <<exit_code, err>>
           ELSE /\ Abort("parse")
                /\ UNCHANGED devices
    /\ UNCHANGED <<res, req_body, utc, devices_expiring, devices_expired, idx,
                   sent, http_status, net_calls>>

\* main.rs:88-90  read the clock, create the two empty buckets
Clock ==
    /\ pc = "clock"
    /\ \E now \in NowValues : utc' = now
    /\ devices_expiring' = <<>>
    /\ devices_expired' = <<>>
    /\ idx' = 1
    /\ pc' = "classify"
    /\ UNCHANGED <<res, req_body, devices, sent, exit_code, err, http_status,
                   net_calls>>

\* main.rs:94-113  one iteration of the loop over devices
Classify ==
    /\ pc = "classify"
    /\ idx <= Len(devices)
    /\ LET device == devices[idx]
           days_until_expiration == NumDays(device.expires - utc)
           b == Bucket(days_until_expiration)
       IN  /\ devices_expiring' =
                IF b = "expiring" THEN Push(devices_expiring, idx)
                ELSE devices_expiring
           /\ devices_expired' =
                IF b = "expired" THEN Push(devices_expired, idx)
                ELSE devices_expired
    /\ idx' = idx + 1
    /\ UNCHANGED <<pc, res, req_body, devices, utc, sent, exit_code, err,
                   http_status, net_calls>>

\* main.rs:94  the iterator is exhausted
ClassifyDone ==
    /\ pc = "classify"
    /\ idx > Len(devices)
    /\ pc' = "select"
    /\ UNCHANGED <<res, req_body, devices, utc, devices_expiring,
                   devices_expired, idx, sent, exit_code, err, http_status,
                   net_calls>>

\* main.rs:116-140 with send_message (main.rs:49-55): pick the message, hand it
\* to api.send, panic on a failed send, else return Ok(())
Notify ==
    /\ pc = "select"
    /\ pc' = "exit"
    /\ LET sel == Selection(devices, devices_expiring, devices_expired, utc)
       IN  IF sel.panic
           THEN /\ exit_code' = PanicExit
                /\ err' = "index out of bounds"
                /\ UNCHANGED <<sent, net_calls>>
           ELSE \E ok \in BOOLEAN :
                /\ sent' = Append(sent, sel.msg)
                /\ net_calls' = net_calls + 1
                /\ exit_code' = ExitAfterSend(ok)
                /\ err' = IF ok THEN "" ELSE "Error sending message"
    /\ UNCHANGED <<res, req_body, devices, utc, devices_expiring,
                   devices_expired, idx, http_status>>

Next ==
    \/ LoadConfig
    \/ ConfigPath
    \/ Fetch
    \/ ReadBody
    \/ Parse
    \/ Clock
    \/ Classify
    \/ ClassifyDone
    \/ Notify

Spec == Init /\ [][Next]_vars

\* The same run over fleets with a single hostname, for the properties that do
\* not depend on the names.
NextOneHost ==
    \/ LoadConfig
    \/ ConfigPath
    \/ FetchOneHost
    \/ ReadBody
    \/ Parse
    \/ Clock
    \/ Classify
    \/ ClassifyDone
    \/ Notify

\* Every awaited call completes (with a result or an error) and the process
\* keeps running until it exits.
FairSpec == Init /\ [][NextOneHost]_vars /\ WF_vars(NextOneHost)

\* ------------------------------------------------------------ vocabulary

Terminated == pc = "exit"

\* config, fetch and parse all succeeded (the clock has been read)
InventoryOk == idx > 0

\* the run ended after the loop over the devices
RanToSelection == Terminated /\ InventoryOk

\* device k has been through the loop body
Processed(k) == k \in 1..Len(devices) /\ k < idx

InBucket(k, bucket) == \E a \in 1..Len(bucket) : bucket[a] = k

\* signed duration until device k expires, in ticks
Remaining(k) == devices[k].expires - utc

\* the body cannot be deserialized into Devices
Unparseable(body) ==
    \/ body.kind \in {"not_json", "other_json"}
    \/ \E k \in 1..Len(body.devices) : ~body.devices[k].expires.valid

\* ---------------------------------------------------------------- claims

\* C1: in every run where config load, fetch and parse succeed, exactly one
\* notification send is attempted before the run ends.
C1_ExactlyOneSend ==
    RanToSelection => Len(sent) = 1

\* C2: with no expired device and exactly one expiring device, the message
\* sent is about that device: "<hostname> is expiring today!" when its whole
\* days left are 0, else "<hostname> is expiring in <days> days!".
C2_SingleExpiringMessage ==
    (RanToSelection /\ Len(devices_expired) = 0 /\ Len(devices_expiring) = 1) =>
        LET device == devices[devices_expiring[1]]
            days == NumDays(device.expires - utc)
        IN  sent = << IF days = 0
                      THEN <<device.hostname, " is expiring today!">>
                      ELSE <<device.hostname, " is expiring in ",
                             ToString(days), " days!">> >>

\* C3: a classified device with 15 or more whole days left is in neither
\* bucket, one with 0..14 whole days left is in expiring only, one with
\* negative whole days is in expired only; the buckets refer only to devices
\* of the fetched list and never both to the same record.  Whole days are the
\* duration truncated toward zero: days >= 15 is a duration of at least 15
\* days, days < 0 a duration of at most minus one day.
C3_BucketByDays ==
    /\ \A k \in 1..Len(devices) : Processed(k) =>
        LET d == Remaining(k)
        IN  /\ d >= WindowDays * TicksPerDay =>
                ~InBucket(k, devices_expiring) /\ ~InBucket(k, devices_expired)
            /\ (-TicksPerDay < d /\ d < WindowDays * TicksPerDay) =>
                InBucket(k, devices_expiring) /\ ~InBucket(k, devices_expired)
            /\ d <= -TicksPerDay =>
                InBucket(k, devices_expired) /\ ~InBucket(k, devices_expiring)
    /\ \A a \in 1..Len(devices_expiring) : Processed(devices_expiring[a])
    /\ \A a \in 1..Len(devices_expired) : Processed(devices_expired[a])
    /\ \A a \in 1..Len(devices_expiring), b \in 1..Len(devices_expired) :
        devices_expiring[a] # devices_expired[b]

C3_Witness ==
    /\ pc = "select"
    /\ \E k \in 1..Len(devices) : Remaining(k) >= WindowDays * TicksPerDay
    /\ Len(devices_expiring) = 1
    /\ Len(devices_expired) = 1

\* C4: expired devices have strict priority: with exactly one expired device
\* the message is "<hostname> has expired!", with N > 1 it is
\* "<N> devices are expired!", whatever the expiring bucket holds; a message
\* about expiring devices is sent only when the expired bucket is empty.
C4_ExpiredPriority ==
    RanToSelection =>
        /\ Len(devices_expired) = 1 =>
            sent = << <<devices[devices_expired[1]].hostname, " has expired!">> >>
        /\ Len(devices_expired) > 1 =>
            sent = << <<ToString(Len(devices_expired)), " devices are expired!">> >>
        /\ \A m \in 1..Len(sent) :
            sent[m][2] \in {" is expiring today!", " is expiring in ",
                            " devices are expiring soon!"}
                => Len(devices_expired) = 0

C4_Witness ==
    /\ RanToSelection
    /\ Len(devices_expired) > 1
    /\ Len(devices_expiring) = 1
    /\ Len(sent) = 1

\* C5 as stated: any failure of the inventory step (transport failure, a
\* non-2xx status, an unparseable body or `expires`) aborts with a non-zero
\* exit before any device is classified or any send attempted; a config
\* failure aborts before any network call.
C5_InventoryFailureAborts ==
    /\ err \in {"transport", "body", "parse"} =>
        Terminated /\ exit_code # 0 /\ ~InventoryOk /\ sent = <<>>
    /\ (http_status # 0 /\ http_status \notin 200..299) =>
        /\ pc \notin {"clock", "classify", "select"}
        /\ ~InventoryOk
        /\ sent = <<>>
        /\ Terminated => exit_code # 0
    /\ (pc \notin {"load_config", "config_path", "fetch", "read_body"}
            /\ err # "body" /\ Unparseable(req_body)) =>
        /\ pc \in {"parse", "exit"}
        /\ ~InventoryOk
        /\ sent = <<>>
        /\ Terminated => exit_code # 0
    /\ err \in {"config", "config_path"} =>
        Terminated /\ exit_code # 0 /\ net_calls = 0 /\ sent = <<>>

\* C5 amended: the same, with a non-2xx status counting as a failure only
\* when its body is not JSON of the expected shape (the status itself is never
\* looked at).
C5_UnparseableInventoryAborts ==
    /\ err \in {"transport", "body", "parse"} =>
        Terminated /\ exit_code # 0 /\ ~InventoryOk /\ sent = <<>>
    /\ (pc \notin {"load_config", "config_path", "fetch", "read_body"}
            /\ err # "body" /\ Unparseable(req_body)) =>
        /\ pc \in {"parse", "exit"}
        /\ ~InventoryOk
        /\ sent = <<>>
        /\ Terminated => exit_code # 0
    /\ err \in {"config", "config_path"} =>
        Terminated /\ exit_code # 0 /\ net_calls = 0 /\ sent = <<>>

C5_Witness ==
    /\ Terminated
    /\ err = "parse"
    /\ http_status = 401
    /\ req_body.kind = "devices"
    /\ Len(req_body.devices) = 2
    /\ req_body.devices[1].expires.valid
    /\ ~req_body.devices[2].expires.valid

\* C6: when no fetched device is expired or expiring (both buckets empty),
\* no notification is sent.
C6_NoSendWhenNothingDue ==
    (RanToSelection /\ Len(devices_expired) = 0 /\ Len(devices_expiring) = 0) =>
        sent = <<>>

\* C7: the expired bucket holds exactly the devices whose expires is strictly
\* before the evaluation time, and every device in the expiring bucket is
\* still valid (expires >= now).
C7_ExpiredIffLapsed ==
    \A k \in 1..Len(devices) : Processed(k) =>
        /\ InBucket(k, devices_expired) <=> devices[k].expires < utc
        /\ InBucket(k, devices_expiring) => devices[k].expires >= utc

\* C8: with no expired device and 0 or at least 2 expiring devices, the
\* message sent is "<N> devices are expiring soon!", N the size of the
\* expiring bucket.
C8_FallbackMessage ==
    (RanToSelection /\ Len(devices_expired) = 0 /\ Len(devices_expiring) # 1) =>
        sent = << <<ToString(Len(devices_expiring)), " devices are expiring soon!">> >>

C8_Witness ==
    /\ RanToSelection
    /\ Len(devices_expired) = 0
    /\ Len(devices_expiring) = 2
    /\ Len(sent) = 1

\* every step from config load to the notification send succeeded
AllSucceeded ==
    /\ err = ""
    /\ InventoryOk
    /\ idx = Len(devices) + 1
    /\ Len(sent) = 1
    /\ net_calls = 2

\* C9: every run terminates; it ends with exit status 0 exactly when config
\* load, fetch, parse, message selection and the send all succeeded, and with
\* a non-zero status after any fatal step.
C9_ExitZeroIffSuccess ==
    /\ <>Terminated
    /\ [](Terminated => (exit_code = 0 <=> AllSucceeded))
    /\ [](Terminated => (exit_code # 0 <=> err # ""))

C9_Witness ==
    /\ Terminated
    /\ exit_code = 0
    /\ Len(devices) = MaxDevices

\* C10: classification is a stable partition: inside each bucket the devices
\* are in the order of the fetched list, and every classified record has its
\* own single entry, records with equal hostnames included.
Ascending(bucket) ==
    \A a, b \in 1..Len(bucket) : a < b => bucket[a] < bucket[b]

C10_StablePartition ==
    /\ Ascending(devices_expiring)
    /\ Ascending(devices_expired)
    /\ Len(devices_expiring) + Len(devices_expired) =
        Cardinality({k \in 1..Len(devices) :
            Processed(k) /\ Remaining(k) < WindowDays * TicksPerDay})

C10_Witness ==
    /\ pc = "select"
    /\ Len(devices) = 3
    /\ devices[1] = devices[3]
    /\ devices_expiring = <<1, 3>>
    /\ devices_expired = <<2>>

====
